---- MODULE Spec2Model ----
(***************************************************************************)
(* Smart Retail Analytics pipeline: the temporal join engine and the       *)
(* aggregator of federation.py, the column parsers, the missing-value      *)
(* handling and the per-source procedures of normalisation.py, and the     *)
(* stages of main.py under execute_pipeline of orchestration.py.           *)
(*                                                                         *)
(* Tables are sequences of records (one record per row, one field per      *)
(* column).  Calendar dates are day numbers.  A missing numeric or date    *)
(* cell (pandas NaN / NaT) is NaN, a missing text cell is NaStr.  Real     *)
(* valued cells (the IoT means) are exact fractions [n, d] in lowest       *)
(* terms; the missing fraction is RNaN.                                    *)
(***************************************************************************)
EXTENDS Integers, Sequences, FiniteSets, TLC

VARIABLES
  orders,        \* data['orders']: the normalised orders table
  marketing,     \* data['marketing']: the normalised campaign table
  web_traffic,   \* data['web_traffic']: the normalised traffic table
  iot,           \* data['iot']: the normalised IoT table
  merged,        \* federate_all's local `merged`
  aggregations,  \* the dictionary returned by create_aggregations
  pc,            \* the position of federate_all
  df,            \* handle_missing_values: the argument table
  strategy,      \* handle_missing_values: the argument strategy
  df_copy,       \* handle_missing_values: the returned table
  npc,           \* the position of handle_missing_values
  proc,          \* the normalisation procedure that is called
  columns,       \* df.columns of its argument
  raw,           \* its argument table
  fill,          \* config['normalization']['fill_na_strategy']
  clean,         \* the table it returns
  spc,           \* its position: "call", "returned" or "raised"
  pass,          \* 1, and 2 when it is applied to its own output
  run,           \* the number of invocations of execute_pipeline so far
  epc,           \* the position of execute_pipeline
  mpc,           \* the position of main
  loaded,        \* load_all_sources: the keys of its local `data`
  completed,     \* the stages of main that completed in this invocation
  exit_code,     \* what main returned (NoCode before it returns)
  report_file,   \* the invocation that wrote REPORT_FILE, 0 when none did
  logged,        \* the outcome execute_pipeline logged
  email,         \* the message send_email_with_report was asked to send
  config,        \* main's local `config` (NoConfig before it is assigned)
  norm_config,   \* normalize_all_sources's local `config`
  config_reads   \* the calls of load_config in this invocation of main

vars == <<orders, marketing, web_traffic, iot, merged, aggregations, pc,
          df, strategy, df_copy, npc,
          proc, columns, raw, fill, clean, spc, pass,
          run, epc, mpc, loaded, completed, exit_code, report_file, logged,
          email, config, norm_config, config_reads>>

fedVars == <<orders, marketing, web_traffic, iot, merged, aggregations, pc>>
normVars == <<df, strategy, df_copy, npc>>
srcVars == <<proc, columns, raw, fill, clean, spc, pass>>
orchVars == <<run, epc, mpc, loaded, completed, exit_code, report_file,
              logged, email, config, norm_config, config_reads>>

----------------------------------------------------------------------------
(* Bounds of the model. *)

MaxOrders == 2
MaxCampaigns == 2
MaxTraffic == 2
MaxIot == 2
MaxDate == 2
MaxRows == 3

(* The missing markers. *)
NaN == -1
NaStr == "NaN"
RNaN == [n |-> 0, d |-> 0]

----------------------------------------------------------------------------
(* Sequences and exact fractions. *)

RECURSIVE SumSeq(_)
SumSeq(s) == IF s = <<>> THEN 0 ELSE Head(s) + SumSeq(Tail(s))

RECURSIVE Flatten(_)
Flatten(ss) == IF ss = <<>> THEN <<>> ELSE Head(ss) \o Flatten(Tail(ss))

Column(t, c) == [i \in 1..Len(t) |-> t[i][c]]

\* All tables of at most n rows drawn from the row set S.
Tables(S, n) == UNION {[1..k -> S] : k \in 0..n}

RECURSIVE GCD(_, _)
GCD(a, b) == IF b = 0 THEN a ELSE GCD(b, a % b)

Frac(n, d) == LET g == GCD(n, d) IN [n |-> n \div g, d |-> d \div g]

FracAdd(x, y) == Frac(x.n * y.d + y.n * x.d, x.d * y.d)

RECURSIVE FracSum(_)
FracSum(s) == IF s = <<>> THEN Frac(0, 1) ELSE FracAdd(Head(s), FracSum(Tail(s)))

\* Series.mean(): the mean of the non-missing cells, NaN when there is none.
FracMean(s) ==
  LET present == SelectSeq(s, LAMBDA x : x # RNaN)
      total == FracSum(present)
  IN IF present = <<>> THEN RNaN ELSE Frac(total.n, total.d * Len(present))

----------------------------------------------------------------------------
(* merge_orders_marketing *)

NoCampaign == "No Campaign"

\* orders.merge(marketing, on='product_id', how='left'): every order row is
\* paired with every campaign row of its product, in the order of the left
\* table; an order whose product has no campaign keeps one row, with the
\* campaign columns missing.
LeftMergeOnProduct(left, right) ==
  LET rowsOf(o) ==
        LET m == SelectSeq(right, LAMBDA c : c.product_id = o.product_id)
        IN IF m = <<>>
             THEN << o @@ [campaign_name |-> NaStr, start_date |-> NaN,
                           end_date |-> NaN] >>
             ELSE [j \in 1..Len(m) |-> o @@ m[j]]
  IN Flatten([i \in 1..Len(left) |-> rowsOf(left[i])])

\* The window with its two bounds excluded.
StrictInCampaign(row) ==
  /\ row.start_date # NaN
  /\ row.end_date # NaN
  /\ row.date > row.start_date
  /\ row.date < row.end_date

\* (date >= start_date) & (date <= end_date); a comparison with a missing
\* date is False.
InCampaign(row) ==
  /\ row.start_date # NaN
  /\ row.end_date # NaN
  /\ row.date >= row.start_date
  /\ row.date <= row.end_date

\* The campaign name left as the join gave it.
KeepCampaignName(row) == row.campaign_name

\* row['campaign_name'] if row['in_campaign'] else 'No Campaign'
CampaignName(row) == IF row.in_campaign THEN row.campaign_name ELSE NoCampaign

\* if 'date' not in orders.columns: orders['date'] = orders['order_date'],
\* an assignment to the caller's table.
OrdersWithDate(o) ==
  [i \in 1..Len(o) |->
     IF "date" \in DOMAIN o[i] THEN o[i]
     ELSE o[i] @@ [date |-> o[i].order_date]]

merge_orders_marketing(o, m) ==
  LET joined == LeftMergeOnProduct(OrdersWithDate(o), m)
      flagged == [i \in 1..Len(joined) |->
                    joined[i] @@ [in_campaign |-> InCampaign(joined[i])]]
  IN [i \in 1..Len(flagged) |->
        [flagged[i] EXCEPT !.campaign_name = CampaignName(flagged[i])]]

----------------------------------------------------------------------------
(* groupby: the group keys are the distinct non-missing values of the key  *)
(* column, in sorted order (pandas drops the rows whose key is missing).   *)

DateOrder == [i \in 1..MaxDate |-> i]

GroupKeys(t, col, order) ==
  SelectSeq(order, LAMBDA k : \E i \in 1..Len(t) : t[i][col] = k)

Group(t, col, k) == SelectSeq(t, LAMBDA r : r[col] = k)

\* data.merge(agg, on='date', how='left'): as for the product join; `missing`
\* holds the right-hand columns of a row that finds no partner.
LeftMergeOnDate(left, right, missing) ==
  LET rowsOf(o) ==
        LET m == SelectSeq(right, LAMBDA c : c.date = o.date)
        IN IF m = <<>> THEN << o @@ missing >>
                       ELSE [j \in 1..Len(m) |-> o @@ m[j]]
  IN Flatten([i \in 1..Len(left) |-> rowsOf(left[i])])

----------------------------------------------------------------------------
(* merge_with_web_traffic *)

\* The per-date table with 'first' in the place of 'sum'.
FirstWebAgg(t) ==
  LET ks == GroupKeys(t, "date", DateOrder)
  IN [j \in 1..Len(ks) |->
        [date |-> ks[j],
         pageviews |-> Group(t, "date", ks[j])[1].pageviews,
         sessions |-> Group(t, "date", ks[j])[1].sessions]]

\* web_traffic.groupby('date').agg({'pageviews': 'sum', 'sessions': 'sum'})
WebAgg(t) ==
  LET ks == GroupKeys(t, "date", DateOrder)
  IN [j \in 1..Len(ks) |->
        [date |-> ks[j],
         pageviews |-> SumSeq(Column(Group(t, "date", ks[j]), "pageviews")),
         sessions |-> SumSeq(Column(Group(t, "date", ks[j]), "sessions"))]]

\* .fillna(0).astype(int)
FillZero(x) == IF x = NaN THEN 0 ELSE x

merge_with_web_traffic(data, traffic) ==
  LET joined == LeftMergeOnDate(data, WebAgg(traffic),
                                [pageviews |-> NaN, sessions |-> NaN])
  IN [i \in 1..Len(joined) |->
        [joined[i] EXCEPT !.pageviews = FillZero(@), !.sessions = FillZero(@)]]

----------------------------------------------------------------------------
(* merge_with_iot *)

ToFrac(s) == [i \in 1..Len(s) |-> Frac(s[i], 1)]

\* The IoT records taken one by one, with no grouping by date.
UngroupedIotAgg(t) ==
  [i \in 1..Len(t) |->
     [date |-> t[i].date,
      footfall |-> Frac(t[i].footfall, 1),
      temperature |-> Frac(t[i].temperature, 1)]]

\* iot.groupby('date').agg({'footfall': 'mean', 'temperature': 'mean'})
IotAgg(t) ==
  LET ks == GroupKeys(t, "date", DateOrder)
  IN [j \in 1..Len(ks) |->
        [date |-> ks[j],
         footfall |-> FracMean(ToFrac(Column(Group(t, "date", ks[j]), "footfall"))),
         temperature |->
           FracMean(ToFrac(Column(Group(t, "date", ks[j]), "temperature")))]]

\* .fillna(value)
FillWith(x, value) == IF x = RNaN THEN value ELSE x

\* if 'date' not in iot.columns: iot['date'] is the day of iot['timestamp'],
\* an assignment to the caller's table.
IotWithDate(t) ==
  [i \in 1..Len(t) |->
     IF "date" \in DOMAIN t[i] THEN t[i]
     ELSE t[i] @@ [date |-> t[i].timestamp.day]]

\* The fill value is the mean of the joined column, one term per joined row.
merge_with_iot(data, sensors) ==
  LET joined == LeftMergeOnDate(data, IotAgg(IotWithDate(sensors)),
                                [footfall |-> RNaN, temperature |-> RNaN])
      meanFootfall == FracMean(Column(joined, "footfall"))
      meanTemperature == FracMean(Column(joined, "temperature"))
  IN [i \in 1..Len(joined) |->
        [joined[i] EXCEPT !.footfall = FillWith(@, meanFootfall),
                          !.temperature = FillWith(@, meanTemperature)]]

----------------------------------------------------------------------------
(* create_aggregations *)

\* The sorted key universes of the text and product columns.
ProductOrder == <<1, 2>>
CountryOrder == <<"FR", "US">>
CampaignOrder == <<"Jan Sale", "No Campaign", "Spring Sale">>

\* 'count': the number of non-missing cells.
Count(s) == Len(SelectSeq(s, LAMBDA x : x # NaN))

\* 'first': the first non-missing cell of the group.
First(s) ==
  LET present == SelectSeq(s, LAMBDA x : x # NaN)
  IN IF present = <<>> THEN NaN ELSE Head(present)

\* data.groupby(col).agg({'total_amount': 'sum', 'quantity': 'sum',
\* 'order_date': 'count'}).reset_index(), order_date renamed order_count.
SalesBy(data, col, order) ==
  LET ks == GroupKeys(data, col, order)
  IN [j \in 1..Len(ks) |->
        LET g == Group(data, col, ks[j])
        IN (col :> ks[j]) @@
           [total_amount |-> SumSeq(Column(g, "total_amount")),
            quantity |-> SumSeq(Column(g, "quantity")),
            order_count |-> Count(Column(g, "order_date"))]]

\* sort_values('total_amount', ascending=False): rows of equal total_amount
\* keep their order.
RECURSIVE InsertRow(_, _, _)
InsertRow(r, s, descending) ==
  IF s = <<>> THEN <<r>>
  ELSE IF (IF descending THEN Head(s).total_amount >= r.total_amount
                         ELSE Head(s).total_amount <= r.total_amount)
         THEN <<Head(s)>> \o InsertRow(r, Tail(s), descending)
         ELSE <<r>> \o s

RECURSIVE SortRows(_, _)
SortRows(s, descending) ==
  IF s = <<>> THEN <<>>
  ELSE InsertRow(s[Len(s)], SortRows(SubSeq(s, 1, Len(s) - 1), descending),
                 descending)

\* The rows in ascending order of total_amount.
SortAscending(t) == SortRows(t, FALSE)

SortDescending(t) == SortRows(t, TRUE)

\* The table without the in_campaign filter.
AllRows(data) == data

\* data[data['in_campaign']]
InCampaignRows(data) == SelectSeq(data, LAMBDA r : r.in_campaign)

\* daily_sales with quantity counted in the place of summed.
CountDailySales(data) ==
  LET ks == GroupKeys(data, "date", DateOrder)
  IN [j \in 1..Len(ks) |->
        LET g == Group(data, "date", ks[j])
        IN [date |-> ks[j],
            total_amount |-> SumSeq(Column(g, "total_amount")),
            quantity |-> Len(g),
            order_count |-> Count(Column(g, "order_date")),
            pageviews |-> First(Column(g, "pageviews")),
            sessions |-> First(Column(g, "sessions"))]]

\* data.groupby('date').agg({'total_amount': 'sum', 'quantity': 'sum',
\* 'order_date': 'count', 'pageviews': 'first', 'sessions': 'first'})
DailySales(data) ==
  LET ks == GroupKeys(data, "date", DateOrder)
  IN [j \in 1..Len(ks) |->
        LET g == Group(data, "date", ks[j])
        IN [date |-> ks[j],
            total_amount |-> SumSeq(Column(g, "total_amount")),
            quantity |-> SumSeq(Column(g, "quantity")),
            order_count |-> Count(Column(g, "order_date")),
            pageviews |-> First(Column(g, "pageviews")),
            sessions |-> First(Column(g, "sessions"))]]

create_aggregations(data) ==
  [daily_sales |-> DailySales(data),
   campaign_sales |->
     SortDescending(SalesBy(InCampaignRows(data), "campaign_name", CampaignOrder)),
   product_sales |-> SortDescending(SalesBy(data, "product_id", ProductOrder)),
   country_sales |-> SortDescending(SalesBy(data, "country", CountryOrder))]

----------------------------------------------------------------------------
(* The normalised inputs of federate_all. *)

Dates == 1..MaxDate
Products == {1, 2}
Countries == {"FR", "US", NaStr}
Sales == {[quantity |-> 1, total_amount |-> 10], [quantity |-> 2, total_amount |-> 20]}
CampaignNames == {"Jan Sale", "Spring Sale"}

\* normalize_orders: date is the calendar date of order_date.
OrderRow(p, d, s, c) ==
  [product_id |-> p, order_date |-> d, date |-> d, quantity |-> s.quantity,
   total_amount |-> s.total_amount, country |-> c]

OrderRows ==
  {OrderRow(p, d, s, c) : p \in Products, d \in Dates, s \in Sales, c \in Countries}

\* Orders that differ in product and date only.
PlainOrderRows ==
  {OrderRow(p, d, [quantity |-> 1, total_amount |-> 10], "FR") :
     p \in Products, d \in Dates}

\* normalize_marketing keeps the campaigns with end_date >= start_date.
CampaignRows ==
  {r \in [campaign_name : CampaignNames, product_id : Products,
          start_date : Dates, end_date : Dates] : r.end_date >= r.start_date}

TrafficRows == [date : Dates, pageviews : {100, 500}, sessions : {40, 60}]

IotRows == [date : Dates, footfall : {10, 30}, temperature : {20, 22}]

\* The order_id of a row is its position in the table.
WithOrderId(t) == [i \in 1..Len(t) |-> t[i] @@ [order_id |-> i]]

Campaign(n, p, a, b) ==
  [campaign_name |-> n, product_id |-> p, start_date |-> a, end_date |-> b]

\* Two campaigns of different products, and two overlapping campaigns of
\* one product.
OverlapSample ==
  << Campaign("Jan Sale", 1, 1, 1), Campaign("Spring Sale", 1, 1, MaxDate) >>

MarketingSamples ==
  { << Campaign("Jan Sale", 1, 1, MaxDate), Campaign("Spring Sale", 2, 1, 1) >>,
    OverlapSample }

TrafficSample ==
  << [date |-> 1, pageviews |-> 100, sessions |-> 40],
     [date |-> 1, pageviews |-> 500, sessions |-> 60] >>

IotSample == << [date |-> 1, footfall |-> 10, temperature |-> 22] >>

NoCode == -1
NoEmail == [status |-> "", attachment |-> 0, delivered |-> FALSE]
NoConfig == ""

\* The orchestrator is not running.
OrchIdle ==
  /\ run = 0
  /\ epc = "idle"
  /\ mpc = "idle"
  /\ loaded = {}
  /\ completed = {}
  /\ exit_code = NoCode
  /\ report_file = 0
  /\ logged = ""
  /\ email = NoEmail
  /\ config = NoConfig
  /\ norm_config = NoConfig
  /\ config_reads = 0

\* No normalisation procedure is running.
SrcIdle ==
  /\ proc = "none"
  /\ columns = {}
  /\ raw = <<>>
  /\ fill = "mean"
  /\ clean = <<>>
  /\ spc = "idle"
  /\ pass = 1

\* handle_missing_values is not running.
NormIdle ==
  /\ df = <<>>
  /\ strategy = "mean"
  /\ df_copy = <<>>
  /\ npc = "idle"

FedStart ==
  /\ merged = <<>>
  /\ aggregations = <<>>
  /\ pc = "start"
  /\ NormIdle
  /\ SrcIdle
  /\ OrchIdle

\* Orders and campaigns vary; traffic and IoT are one sample each.
JoinInit ==
  /\ \E t \in Tables(PlainOrderRows, MaxOrders) : orders = WithOrderId(t)
  /\ marketing \in Tables(CampaignRows, MaxCampaigns)
  /\ Len(orders) + Len(marketing) <= MaxRows
  /\ web_traffic = TrafficSample
  /\ iot = IotSample
  /\ FedStart

\* Order dates, traffic and IoT vary; there are no campaigns, or the two
\* overlapping ones.
SideInit ==
  /\ \E t \in Tables({r \in PlainOrderRows : r.product_id = 1}, MaxOrders) :
       orders = WithOrderId(t)
  /\ marketing \in {<<>>, OverlapSample}
  /\ web_traffic \in Tables(TrafficRows, MaxTraffic)
  /\ iot \in Tables(IotRows, MaxIot)
  /\ Len(orders) + Len(web_traffic) + Len(iot) <= MaxRows
  /\ FedStart

\* Orders vary in every column; campaigns, traffic and IoT are samples.
AggInit ==
  /\ \E t \in Tables(OrderRows, MaxOrders) : orders = WithOrderId(t)
  /\ marketing \in MarketingSamples
  /\ web_traffic = TrafficSample
  /\ iot = IotSample
  /\ FedStart

(* federate_all: the four steps, in the order of the code. *)

MergeOrdersMarketing ==
  /\ pc = "start"
  /\ merged' = merge_orders_marketing(orders, marketing)
  /\ orders' = OrdersWithDate(orders)
  /\ pc' = "orders_marketing"
  /\ UNCHANGED <<marketing, web_traffic, iot, aggregations, normVars, srcVars, orchVars>>

MergeWithWebTraffic ==
  /\ pc = "orders_marketing"
  /\ merged' = merge_with_web_traffic(merged, web_traffic)
  /\ pc' = "web_traffic"
  /\ UNCHANGED <<orders, marketing, web_traffic, iot, aggregations, normVars, srcVars, orchVars>>

MergeWithIot ==
  /\ pc = "web_traffic"
  /\ merged' = merge_with_iot(merged, iot)
  /\ iot' = IotWithDate(iot)
  /\ pc' = "iot"
  /\ UNCHANGED <<orders, marketing, web_traffic, aggregations, normVars, srcVars, orchVars>>

CreateAggregations ==
  /\ pc = "iot"
  /\ aggregations' = create_aggregations(merged)
  /\ pc' = "done"
  /\ UNCHANGED <<orders, marketing, web_traffic, iot, merged, normVars, srcVars, orchVars>>

FedNext ==
  \/ MergeOrdersMarketing
  \/ MergeWithWebTraffic
  \/ MergeWithIot
  \/ CreateAggregations

----------------------------------------------------------------------------
(* handle_missing_values.  The cells of a numeric column are fractions     *)
(* (RNaN when missing), the cells of a text column are text tokens 1, 2,   *)
(* ... (NaN when missing, 0 once filled with zero), the cells of a date    *)
(* column are [k, day, hour] (NaT when missing, the integer 0 once filled  *)
(* with zero).                                                             *)

NumericCols ==
  {"quantity", "total_amount", "pageviews", "sessions", "footfall",
   "temperature"}
ObjectCols == {"country", "campaign_name"}
DatetimeCols == {"order_date", "start_date", "end_date", "date", "timestamp"}

\* The columns of the table handle_missing_values is checked on alone.
DfCols == {"quantity", "total_amount", "country"}

NaT == [k |-> "nat", day |-> 0, hour |-> 0]
IntCell(i) == [k |-> "int", day |-> i, hour |-> 0]

\* df.columns
Cols(t) == IF t = <<>> THEN {} ELSE DOMAIN t[1]

Missing(col) ==
  IF col \in NumericCols THEN RNaN
  ELSE IF col \in DatetimeCols THEN NaT ELSE NaN

Zero(col) ==
  IF col \in NumericCols THEN Frac(0, 1)
  ELSE IF col \in DatetimeCols THEN IntCell(0) ELSE 0

DfRows ==
  [quantity : {RNaN, Frac(1, 1), Frac(2, 1)},
   total_amount : {RNaN, Frac(10, 1), Frac(20, 1)},
   country : {NaN, 1, 2}]

Strategies == {"mean", "median", "zero", "drop", "none"}

\* df.isnull()
IsNull(row, col) == row[col] = Missing(col)

\* df.isnull().sum().sum()
RECURSIVE Cardinal(_)
Cardinal(S) == IF S = {} THEN 0 ELSE LET x == CHOOSE y \in S : TRUE
                                    IN 1 + Cardinal(S \ {x})

MissingCount(t) ==
  Cardinal({<<i, c>> \in (1..Len(t)) \X Cols(t) : IsNull(t[i], c)})

\* dropna restricted to the numeric columns.
DropNaNumeric(t) ==
  SelectSeq(t, LAMBDA r : \A c \in NumericCols \cap Cols(t) : ~IsNull(r, c))

\* df.dropna()
DropNa(t) == SelectSeq(t, LAMBDA r : \A c \in Cols(t) : ~IsNull(r, c))

\* The zero fill restricted to the numeric columns.
FillNumericWithZero(t) ==
  [i \in 1..Len(t) |->
     [c \in Cols(t) |-> IF IsNull(t[i], c) /\ c \in NumericCols
                         THEN Zero(c) ELSE t[i][c]]]

\* df.fillna(0)
FillNaZero(t) ==
  [i \in 1..Len(t) |->
     [c \in Cols(t) |-> IF IsNull(t[i], c) THEN Zero(c) ELSE t[i][c]]]

FracLeq(x, y) == x.n * y.d <= y.n * x.d

RECURSIVE InsertFrac(_, _)
InsertFrac(x, s) ==
  IF s = <<>> THEN <<x>>
  ELSE IF FracLeq(Head(s), x) THEN <<Head(s)>> \o InsertFrac(x, Tail(s))
  ELSE <<x>> \o s

RECURSIVE SortFrac(_)
SortFrac(s) == IF s = <<>> THEN <<>> ELSE InsertFrac(Head(s), SortFrac(Tail(s)))

\* Series.median(): the middle of the sorted non-missing cells, the mean of
\* the two middle ones when their number is even, NaN when there is none.
FracMedian(s) ==
  LET sorted == SortFrac(SelectSeq(s, LAMBDA x : x # RNaN))
      n == Len(sorted)
  IN IF n = 0 THEN RNaN
     ELSE IF n % 2 = 1 THEN sorted[(n + 1) \div 2]
     ELSE FracMean(<< sorted[n \div 2], sorted[n \div 2 + 1] >>)

\* The fill with the sum of the present cells divided by the number of rows.
FillNumericLenMean(t, how) ==
  [i \in 1..Len(t) |->
     [c \in Cols(t) |->
        IF c \in NumericCols /\ IsNull(t[i], c)
          THEN LET total == FracSum(SelectSeq(Column(t, c),
                                              LAMBDA x : x # RNaN))
               IN Frac(total.n, total.d * Len(t))
          ELSE t[i][c]]]

\* The mean / median branch: the numeric columns only, each filled with the
\* statistic of its own non-missing cells.
FillNumeric(t, how) ==
  [i \in 1..Len(t) |->
     [c \in Cols(t) |->
        IF c \in NumericCols /\ IsNull(t[i], c)
          THEN IF how = "mean" THEN FracMean(Column(t, c))
                               ELSE FracMedian(Column(t, c))
          ELSE t[i][c]]]

handle_missing_values(t, how) ==
  IF MissingCount(t) = 0 THEN t
  ELSE IF how = "drop" THEN DropNa(t)
  ELSE IF how = "zero" THEN FillNaZero(t)
  ELSE IF how \in {"mean", "median"} THEN FillNumeric(t, how)
  ELSE t

MaxDfRows == 2

\* federate_all is not running.
FedIdle ==
  /\ orders = <<>>
  /\ marketing = <<>>
  /\ web_traffic = <<>>
  /\ iot = <<>>
  /\ merged = <<>>
  /\ aggregations = <<>>
  /\ pc = "idle"

NormInit ==
  /\ df \in Tables(DfRows, MaxDfRows)
  /\ strategy \in Strategies
  /\ df_copy = <<>>
  /\ npc = "call"
  /\ FedIdle
  /\ SrcIdle
  /\ OrchIdle

HandleMissingValues ==
  /\ npc = "call"
  /\ df_copy' = handle_missing_values(df, strategy)
  /\ npc' = "returned"
  /\ UNCHANGED <<df, strategy, fedVars, srcVars, orchVars>>

NormNext == HandleMissingValues

----------------------------------------------------------------------------
(* normalize_numeric and normalize_dates.                                  *)
(*                                                                         *)
(* A string of a numeric column is [sym, value, comma, junk]: an optional  *)
(* currency symbol, then the decimal numeral of the fraction `value`,      *)
(* written with a thousands separator when `comma`, then letters when      *)
(* `junk`.  "$1,234.50" is Str("$", Frac(2469, 2), TRUE, FALSE); the euro  *)
(* sign is written "EUR".  A cell that is already a number is a fraction,  *)
(* a missing one is RNaN.                                                  *)
(*                                                                         *)
(* A cell of a date column is [k, day, hour]: a string that spells a date  *)
(* and a time ("str"), a string that spells none ("bad"), a Timestamp      *)
(* ("ts"), a datetime.date ("date"), NaT ("nat") or an integer ("int").    *)

Str(sym, value, comma, junk) ==
  [sym |-> sym, value |-> value, comma |-> comma, junk |-> junk]

IsStr(x) == "sym" \in DOMAIN x

Range(s) == {s[i] : i \in 1..Len(s)}

\* Series.str.replace(pattern, '', regex=True): the dollar sign, the euro sign and the comma
\* are removed from a string; a cell that is not a string becomes NaN.
StrReplace(x) == IF IsStr(x) THEN Str("", x.value, FALSE, x.junk) ELSE RNaN

\* float(x) accepts the string.
IsFloatLiteral(x) == x.sym = "" /\ ~x.comma /\ ~x.junk

\* Series.astype(float) raises ValueError on a string float() rejects.
AstypeFloatRaises(series) ==
  \E i \in 1..Len(series) : IsStr(series[i]) /\ ~IsFloatLiteral(series[i])

AstypeFloat(series) ==
  [i \in 1..Len(series) |->
     IF IsStr(series[i]) THEN series[i].value ELSE series[i]]

CleanCurrencyRaises(series) ==
  AstypeFloatRaises([i \in 1..Len(series) |-> StrReplace(series[i])])

clean_currency(series) ==
  AstypeFloat([i \in 1..Len(series) |-> StrReplace(series[i])])

\* pd.to_numeric(errors='coerce'), one cell.
ToNumeric(x) ==
  IF IsStr(x) THEN IF IsFloatLiteral(x) THEN x.value ELSE RNaN ELSE x

\* Series.dtype == 'object'
IsObject(series) == \E i \in 1..Len(series) : IsStr(series[i])

\* The body of the loop of normalize_numeric for one column.  The test for
\* a currency column reads the first cell only; an exception (iloc[0] of
\* an empty column, astype(float) on a string that is no number) is caught
\* and the column is left as it was.
NumericSeries(series) ==
  IF series = <<>> THEN series
  ELSE IF IsObject(series) /\ IsStr(series[1]) /\ series[1].sym = "$"
    THEN IF CleanCurrencyRaises(series) THEN series
                                        ELSE clean_currency(series)
  ELSE [i \in 1..Len(series) |-> ToNumeric(series[i])]

normalize_numeric(t, numeric_columns) ==
  [i \in 1..Len(t) |->
     [c \in Cols(t) |->
        IF c \in Range(numeric_columns)
          THEN NumericSeries(Column(t, c))[i] ELSE t[i][c]]]

DateStr(day, hour) == [k |-> "str", day |-> day, hour |-> hour]
BadStr == [k |-> "bad", day |-> 0, hour |-> 0]
Timestamp(day, hour) == [k |-> "ts", day |-> day, hour |-> hour]
DateObj(day) == [k |-> "date", day |-> day, hour |-> 0]

\* The conversion that reads strings and Timestamps only.
ToDatetimeOfStrings(x) ==
  CASE x.k = "str" -> Timestamp(x.day, x.hour)
    [] x.k = "ts" -> x
    [] OTHER -> NaT

\* pd.to_datetime(errors='coerce'), one cell: a string that spells no date
\* becomes NaT, a date becomes the Timestamp of its midnight, an integer
\* counts from the epoch (day 0).
ToDatetime(x) ==
  CASE x.k = "str" -> Timestamp(x.day, x.hour)
    [] x.k = "bad" -> NaT
    [] x.k = "ts" -> x
    [] x.k = "date" -> Timestamp(x.day, 0)
    [] x.k = "nat" -> NaT
    [] x.k = "int" -> Timestamp(x.day, 0)

normalize_dates(t, date_columns) ==
  [i \in 1..Len(t) |->
     [c \in Cols(t) |->
        IF c \in Range(date_columns) THEN ToDatetime(t[i][c]) ELSE t[i][c]]]

MaxCells == 2

Amounts == {Frac(99, 1), Frac(2469, 2)}
Hours == {0, 9}
Days == {1, 2}

AmountCells ==
  {RNaN} \cup Amounts
    \cup {Str(sym, Frac(99, 1), FALSE, junk) :
            sym \in {"", "$", "EUR"}, junk \in BOOLEAN}
    \cup {Str(sym, Frac(2469, 2), comma, junk) :
            sym \in {"", "$", "EUR"}, comma \in BOOLEAN, junk \in BOOLEAN}

DateCells ==
  {NaT, BadStr}
    \cup {DateStr(d, h) : d \in Days, h \in Hours}
    \cup {Timestamp(d, h) : d \in Days, h \in Hours}
    \cup {DateObj(d) : d \in Days}

\* The tables of at most n rows that have the one column c.
OneColumn(c, cells, n) == Tables({[x \in {c} |-> v] : v \in cells}, n)

\* A table with no column, with the order_date column or with the
\* total_amount column; quantity is absent from all of them.
ParseInit ==
  /\ proc \in {"normalize_dates", "normalize_numeric"}
  /\ columns \in {{}, {"order_date"}, {"total_amount"}}
  /\ raw \in IF columns = {} THEN Tables({<<>>}, MaxCells)
             ELSE IF columns = {"order_date"}
               THEN OneColumn("order_date", DateCells, MaxCells)
             ELSE OneColumn("total_amount", AmountCells, MaxCells)
  /\ fill = "mean"
  /\ clean = <<>>
  /\ spc = "call"
  /\ pass = 1
  /\ FedIdle
  /\ NormIdle
  /\ OrchIdle

NormalizeDates ==
  /\ proc = "normalize_dates"
  /\ spc = "call"
  /\ clean' = normalize_dates(raw, <<"order_date">>)
  /\ spc' = "returned"
  /\ UNCHANGED <<proc, columns, raw, fill, pass, fedVars, normVars, orchVars>>

NormalizeNumeric ==
  /\ proc = "normalize_numeric"
  /\ spc = "call"
  /\ clean' = normalize_numeric(raw, <<"quantity", "total_amount">>)
  /\ spc' = "returned"
  /\ UNCHANGED <<proc, columns, raw, fill, pass, fedVars, normVars, orchVars>>

ParseNext ==
  \/ NormalizeDates
  \/ NormalizeNumeric

ParseSpec == ParseInit /\ [][ParseNext]_vars

----------------------------------------------------------------------------
(* normalize_orders, normalize_marketing, normalize_web_traffic and        *)
(* normalize_iot.                                                          *)

\* Series.dt: AttributeError unless every cell is a Timestamp or NaT.
IsDatetimeLike(t, c) == \A i \in 1..Len(t) : t[i][c].k \in {"ts", "nat"}

\* Timestamp.date(); NaT stays NaT.
DtDate(x) == IF x.k = "ts" THEN DateObj(x.day) ELSE NaT

\* df_clean['date'] = df_clean[c].dt.date
WithDate(t, c) ==
  [i \in 1..Len(t) |->
     [x \in Cols(t) \cup {"date"} |->
        IF x = "date" THEN DtDate(t[i][c]) ELSE t[i][x]]]

\* df_clean[c].dt.date raises: KeyError when the column is absent,
\* AttributeError when it is not a datetime column.
DtDateRaises(t, cols, c) == c \notin cols \/ ~IsDatetimeLike(t, c)

OrdersParsed(t, how) ==
  handle_missing_values(
    normalize_numeric(normalize_dates(t, <<"order_date">>),
                      <<"quantity", "total_amount">>), how)

NormalizeOrdersRaises(t, cols, how) ==
  DtDateRaises(OrdersParsed(t, how), cols, "order_date")

normalize_orders(t, how) == WithDate(OrdersParsed(t, how), "order_date")

\* Two cells of date columns cannot be ordered: an integer against a
\* Timestamp or NaT raises TypeError.
Incomparable(x, y) == (x.k = "int") # (y.k = "int")

\* x < y; a comparison with NaT is False.
Before(x, y) ==
  /\ x.k # "nat" /\ y.k # "nat"
  /\ \/ x.day < y.day
     \/ x.day = y.day /\ x.hour < y.hour

\* x >= y; a comparison with NaT is False.
NotBefore(x, y) == x.k # "nat" /\ y.k # "nat" /\ ~Before(x, y)

MarketingParsed(t, how) ==
  handle_missing_values(normalize_dates(t, <<"start_date", "end_date">>), how)

NormalizeMarketingRaises(t, cols, how) ==
  \/ ~({"start_date", "end_date"} \subseteq cols)
  \/ \E r \in Range(MarketingParsed(t, how)) :
       Incomparable(r.end_date, r.start_date)

\* The rows with end_date >= start_date are kept only when some row has
\* end_date < start_date.
normalize_marketing(t, how) ==
  LET df_clean == MarketingParsed(t, how)
      invalid_dates ==
        SelectSeq(df_clean, LAMBDA r : Before(r.end_date, r.start_date))
  IN IF Len(invalid_dates) > 0
       THEN SelectSeq(df_clean,
                      LAMBDA r : NotBefore(r.end_date, r.start_date))
       ELSE df_clean

TrafficParsed(t, how) ==
  handle_missing_values(
    normalize_numeric(normalize_dates(t, <<"date">>),
                      <<"pageviews", "sessions">>), how)

NormalizeWebTrafficRaises(t, cols, how) ==
  DtDateRaises(TrafficParsed(t, how), cols, "date")

normalize_web_traffic(t, how) == WithDate(TrafficParsed(t, how), "date")

IotParsed(t, how) ==
  handle_missing_values(
    normalize_numeric(normalize_dates(t, <<"timestamp">>),
                      <<"footfall", "temperature">>), how)

NormalizeIotRaises(t, cols, how) ==
  DtDateRaises(IotParsed(t, how), cols, "timestamp")

normalize_iot(t, how) == WithDate(IotParsed(t, how), "timestamp")

MaxSrcRows == 2

\* The columns of the raw tables of the model.
Schema(p) ==
  CASE p = "normalize_orders" -> {"order_date", "quantity", "country"}
    [] p = "normalize_marketing" -> {"campaign_name", "start_date", "end_date"}
    [] p = "normalize_web_traffic" -> {"date", "pageviews"}
    [] p = "normalize_iot" -> {"timestamp", "footfall"}

\* The raw cells: a date string of day 1 or day 2 or a string that is no
\* date; the numeral "5", the string "5x" or the number 3; a text token or
\* a missing text.
RawDates == {DateStr(1, 9), DateStr(2, 0), BadStr}
RawNumbers ==
  {Str("", Frac(5, 1), FALSE, FALSE), Str("", Frac(5, 1), FALSE, TRUE),
   Frac(3, 1)}
RawTexts == {1, NaN}

RawCells(c) ==
  IF c \in DatetimeCols THEN RawDates
  ELSE IF c \in NumericCols THEN RawNumbers ELSE RawTexts

RECURSIVE RawRows(_)
RawRows(cols) ==
  IF cols = {} THEN {<<>>}
  ELSE LET c == CHOOSE x \in cols : TRUE
       IN {r @@ [x \in {c} |-> v] : r \in RawRows(cols \ {c}), v \in RawCells(c)}

SourceInit ==
  /\ proc \in {"normalize_orders", "normalize_marketing",
               "normalize_web_traffic", "normalize_iot"}
  /\ columns \in SUBSET Schema(proc)
  /\ raw \in Tables(RawRows(columns), MaxSrcRows)
  /\ fill \in Strategies
  /\ clean = <<>>
  /\ spc = "call"
  /\ pass = 1
  /\ FedIdle
  /\ NormIdle
  /\ OrchIdle

NormalizeOrders ==
  /\ proc = "normalize_orders"
  /\ spc = "call"
  /\ IF NormalizeOrdersRaises(raw, columns, fill)
       THEN clean' = <<>> /\ spc' = "raised"
       ELSE clean' = normalize_orders(raw, fill) /\ spc' = "returned"
  /\ UNCHANGED <<proc, columns, raw, fill, pass, fedVars, normVars, orchVars>>

NormalizeMarketing ==
  /\ proc = "normalize_marketing"
  /\ spc = "call"
  /\ IF NormalizeMarketingRaises(raw, columns, fill)
       THEN clean' = <<>> /\ spc' = "raised"
       ELSE clean' = normalize_marketing(raw, fill) /\ spc' = "returned"
  /\ UNCHANGED <<proc, columns, raw, fill, pass, fedVars, normVars, orchVars>>

NormalizeWebTraffic ==
  /\ proc = "normalize_web_traffic"
  /\ spc = "call"
  /\ IF NormalizeWebTrafficRaises(raw, columns, fill)
       THEN clean' = <<>> /\ spc' = "raised"
       ELSE clean' = normalize_web_traffic(raw, fill) /\ spc' = "returned"
  /\ UNCHANGED <<proc, columns, raw, fill, pass, fedVars, normVars, orchVars>>

NormalizeIot ==
  /\ proc = "normalize_iot"
  /\ spc = "call"
  /\ IF NormalizeIotRaises(raw, columns, fill)
       THEN clean' = <<>> /\ spc' = "raised"
       ELSE clean' = normalize_iot(raw, fill) /\ spc' = "returned"
  /\ UNCHANGED <<proc, columns, raw, fill, pass, fedVars, normVars, orchVars>>

\* The procedure is called again, on the table it returned.
Reapply ==
  /\ spc = "returned"
  /\ pass = 1
  /\ raw' = clean
  /\ columns' = IF proc \in {"normalize_orders", "normalize_iot"}
                  THEN columns \cup {"date"} ELSE columns
  /\ clean' = <<>>
  /\ spc' = "call"
  /\ pass' = 2
  /\ UNCHANGED <<proc, fill, fedVars, normVars, orchVars>>

SourceNext ==
  \/ NormalizeOrders
  \/ NormalizeMarketing
  \/ NormalizeWebTraffic
  \/ NormalizeIot
  \/ Reapply

SourceSpec == SourceInit /\ [][SourceNext]_vars

----------------------------------------------------------------------------
(* main (main.py) and execute_pipeline (orchestration.py).  Every stage    *)
(* of main either completes or raises; which of the two is the choice of   *)
(* the environment (files, data, SMTP server).                             *)

MaxRuns == 2

\* The sources, in the order load_all_sources loads them.
Sources == <<"orders", "marketing", "web_traffic", "iot">>

\* The stages of main, in the order of its try block.
Stages ==
  <<"load_config", "load_all_sources", "normalize_all_sources",
    "federate_all", "create_all_visualizations", "save_processed_data",
    "generate_summary_report">>

IndexOf(stage) == CHOOSE i \in 1..Len(Stages) : Stages[i] = stage

\* Control that goes on to the next stage whether the stage raised or not.
AfterStageIgnoringFailure(stage, ok) ==
  IF IndexOf(stage) = Len(Stages) THEN "return"
  ELSE Stages[IndexOf(stage) + 1]

\* The try block of main: a stage that raises hands control to the except
\* clause, a stage that completes to the next stage, the last one to
\* `return 0`.
AfterStage(stage, ok) ==
  IF ~ok THEN "except"
  ELSE IF IndexOf(stage) = Len(Stages) THEN "return"
  ELSE Stages[IndexOf(stage) + 1]

Done(stage, ok) == IF ok THEN completed \cup {stage} ELSE completed

\* The status that is "Success" whatever main returned.
StatusAlwaysSuccess(code) == "Success"

\* execute_pipeline, lines 164-169.
StatusOf(code) == IF code = 0 THEN "Success" ELSE "Failed"

\* send_email_with_report: the subject carries the status, the report
\* file is attached when it exists, and an exception of the SMTP exchange
\* is caught (the function returns False).
send_email_with_report(report, execution_status, smtp_ok) ==
  [status |-> execution_status, attachment |-> report, delivered |-> smtp_ok]

OrchInit ==
  /\ FedIdle
  /\ NormIdle
  /\ SrcIdle
  /\ OrchIdle

\* execute_pipeline is invoked (by the daily schedule or by test_mode) and
\* calls main.
ExecutePipeline ==
  /\ epc \in {"idle", "returned"}
  /\ run < MaxRuns
  /\ run' = run + 1
  /\ epc' = "run_pipeline"
  /\ mpc' = Stages[1]
  /\ loaded' = {}
  /\ completed' = {}
  /\ exit_code' = NoCode
  /\ logged' = ""
  /\ email' = NoEmail
  /\ config' = NoConfig
  /\ norm_config' = NoConfig
  /\ config_reads' = 0
  /\ UNCHANGED <<report_file, fedVars, normVars, srcVars>>

\* load_config opens config.yaml and parses it: what it returns is what the
\* file holds at that moment; NoConfig stands for a call that raised.
ConfigValues == {"mean", "drop"}

\* normalize_all_sources(raw_data): main passes no configuration, so the
\* parameter `config` has its default, None.
ConfigArgument(given) == NoConfig

\* main, line 175: config = load_config().
LoadConfig ==
  /\ mpc = "load_config"
  /\ config_reads' = config_reads + 1
  /\ \E read \in ConfigValues \cup {NoConfig} :
       /\ config' = read
       /\ mpc' = AfterStage("load_config", read # NoConfig)
       /\ completed' = Done("load_config", read # NoConfig)
  /\ UNCHANGED <<run, epc, loaded, exit_code, report_file, logged, email,
                 norm_config, fedVars, normVars, srcVars>>

\* load_all_sources: the first n sources are loaded; the next one, if
\* any, raises and the exception leaves load_all_sources.
LoadAllSources ==
  /\ mpc = "load_all_sources"
  /\ \E n \in 0..Len(Sources) :
       /\ loaded' = {Sources[i] : i \in 1..n}
       /\ mpc' = AfterStage("load_all_sources", n = Len(Sources))
       /\ completed' = Done("load_all_sources", n = Len(Sources))
  /\ UNCHANGED <<run, epc, exit_code, report_file, logged, email,
                 config, norm_config, config_reads,
                 fedVars, normVars, srcVars>>

\* normalize_all_sources: `if config is None: config = load_config()`,
\* then the four procedures; a load_config that raises ends the stage.
NormalizeAllSources ==
  /\ mpc = "normalize_all_sources"
  /\ IF ConfigArgument(config) = NoConfig
       THEN /\ config_reads' = config_reads + 1
            /\ \E read \in ConfigValues \cup {NoConfig}, ok \in BOOLEAN :
                 /\ norm_config' = read
                 /\ mpc' = AfterStage("normalize_all_sources",
                                      ok /\ read # NoConfig)
                 /\ completed' = Done("normalize_all_sources",
                                      ok /\ read # NoConfig)
       ELSE /\ config_reads' = config_reads
            /\ norm_config' = ConfigArgument(config)
            /\ \E ok \in BOOLEAN :
                 /\ mpc' = AfterStage("normalize_all_sources", ok)
                 /\ completed' = Done("normalize_all_sources", ok)
  /\ UNCHANGED <<run, epc, loaded, exit_code, report_file, logged, email,
                 config, fedVars, normVars, srcVars>>

FederateAll ==
  /\ mpc = "federate_all"
  /\ \E ok \in BOOLEAN :
       /\ mpc' = AfterStage("federate_all", ok)
       /\ completed' = Done("federate_all", ok)
  /\ UNCHANGED <<run, epc, loaded, exit_code, report_file, logged, email,
                 config, norm_config, config_reads,
                 fedVars, normVars, srcVars>>

CreateAllVisualizations ==
  /\ mpc = "create_all_visualizations"
  /\ \E ok \in BOOLEAN :
       /\ mpc' = AfterStage("create_all_visualizations", ok)
       /\ completed' = Done("create_all_visualizations", ok)
  /\ UNCHANGED <<run, epc, loaded, exit_code, report_file, logged, email,
                 config, norm_config, config_reads,
                 fedVars, normVars, srcVars>>

SaveProcessedData ==
  /\ mpc = "save_processed_data"
  /\ \E ok \in BOOLEAN :
       /\ mpc' = AfterStage("save_processed_data", ok)
       /\ completed' = Done("save_processed_data", ok)
  /\ UNCHANGED <<run, epc, loaded, exit_code, report_file, logged, email,
                 config, norm_config, config_reads,
                 fedVars, normVars, srcVars>>

\* generate_summary_report opens execution_summary.txt for writing; when it
\* raises, the file is the old one (it raised before the open) or a partial
\* one of this invocation.
GenerateSummaryReport ==
  /\ mpc = "generate_summary_report"
  /\ \E ok \in BOOLEAN :
       /\ mpc' = AfterStage("generate_summary_report", ok)
       /\ completed' = Done("generate_summary_report", ok)
       /\ report_file' \in IF ok THEN {run} ELSE {report_file, run}
  /\ UNCHANGED <<run, epc, loaded, exit_code, logged, email,
                 config, norm_config, config_reads,
                 fedVars, normVars, srcVars>>

\* return 0
MainReturn ==
  /\ mpc = "return"
  /\ exit_code' = 0
  /\ mpc' = "returned"
  /\ UNCHANGED <<run, epc, loaded, completed, report_file, logged, email,
                 config, norm_config, config_reads,
                 fedVars, normVars, srcVars>>

\* The except clause of main prints the error and the traceback and
\* returns 1; an exception raised by the clause itself leaves main.
MainExcept ==
  /\ mpc = "except"
  /\ \E printed \in BOOLEAN :
       IF printed THEN exit_code' = 1 /\ mpc' = "returned"
                  ELSE exit_code' = exit_code /\ mpc' = "raised"
  /\ UNCHANGED <<run, epc, loaded, completed, report_file, logged, email,
                 config, norm_config, config_reads,
                 fedVars, normVars, srcVars>>

\* execute_pipeline after main returned: the status, the log line and the
\* email.
ReportOutcome ==
  /\ epc = "run_pipeline"
  /\ mpc = "returned"
  /\ logged' = StatusOf(exit_code)
  /\ \E smtp_ok \in BOOLEAN :
       email' = send_email_with_report(report_file, StatusOf(exit_code),
                                       smtp_ok)
  /\ epc' = "returned"
  /\ UNCHANGED <<run, mpc, loaded, completed, exit_code, report_file,
                 config, norm_config, config_reads,
                 fedVars, normVars, srcVars>>

\* The except clause of execute_pipeline, after main raised.
ReportError ==
  /\ epc = "run_pipeline"
  /\ mpc = "raised"
  /\ logged' = "Error"
  /\ \E smtp_ok \in BOOLEAN :
       email' = send_email_with_report(report_file, "Failed - Error", smtp_ok)
  /\ epc' = "returned"
  /\ UNCHANGED <<run, mpc, loaded, completed, exit_code, report_file,
                 config, norm_config, config_reads,
                 fedVars, normVars, srcVars>>

OrchNext ==
  \/ ExecutePipeline
  \/ LoadConfig
  \/ LoadAllSources
  \/ NormalizeAllSources
  \/ FederateAll
  \/ CreateAllVisualizations
  \/ SaveProcessedData
  \/ GenerateSummaryReport
  \/ MainReturn
  \/ MainExcept
  \/ ReportOutcome
  \/ ReportError

OrchSpec == OrchInit /\ [][OrchNext]_vars

\* Every call that has started runs on: no step of main or of
\* execute_pipeline blocks for ever.
OrchFairSpec == OrchInit /\ [][OrchNext]_vars /\ WF_vars(OrchNext)

----------------------------------------------------------------------------
(* federate_all on tables that may lack the date column: orders straight   *)
(* from the loader (order_date only) and IoT readings with their timestamp *)
(* only.                                                                   *)

FrameInit ==
  LET WithoutDate(t) ==
        [i \in 1..Len(t) |-> [c \in DOMAIN t[i] \ {"date"} |-> t[i][c]]]
      WithTimestamp(t) ==
        [i \in 1..Len(t) |->
           [timestamp |-> Timestamp(t[i].date, 9),
            footfall |-> t[i].footfall,
            temperature |-> t[i].temperature]]
  IN /\ \E t \in Tables(PlainOrderRows, MaxOrders) :
          orders \in {WithOrderId(t), WithoutDate(WithOrderId(t))}
     /\ marketing \in {<<>>, OverlapSample}
     /\ web_traffic = TrafficSample
     /\ \E t \in Tables(IotRows, 1) : iot \in {t, WithTimestamp(t)}
     /\ FedStart

FrameSpec == FrameInit /\ [][FedNext]_vars

NormSpec == NormInit /\ [][NormNext]_vars

JoinSpec == JoinInit /\ [][FedNext]_vars

SideSpec == SideInit /\ [][FedNext]_vars

AggSpec == AggInit /\ [][FedNext]_vars

----------------------------------------------------------------------------
(* Claims C1 - C5: the temporal join engine. *)

Rows(t) == {t[i] : i \in 1..Len(t)}

Joined == pc \in {"orders_marketing", "web_traffic", "iot", "done"}
WebJoined == pc \in {"web_traffic", "iot", "done"}
IotJoined == pc \in {"iot", "done"}

InWindow(o, c) == c.start_date <= o.date /\ o.date <= c.end_date

\* No product has two campaigns whose date windows overlap.
NoOverlappingCampaigns ==
  \A i, j \in 1..Len(marketing) :
    (i < j /\ marketing[i].product_id = marketing[j].product_id)
      => \/ marketing[i].end_date < marketing[j].start_date
         \/ marketing[j].end_date < marketing[i].start_date

\* C1: when no product has two campaigns with overlapping windows, the
\* unified table returned by federate_all has exactly as many rows as the
\* orders table.
C1_RowCountEqualsOrders ==
  (pc = "done" /\ NoOverlappingCampaigns) => Len(merged) = Len(orders)

\* C2: an order paired with a campaign of its product is in_campaign exactly
\* when start_date <= date <= end_date: true on start_date and on end_date,
\* false one day before start_date and one day after end_date.
C2_CampaignWindowInclusive ==
  Joined =>
    /\ \A r \in Rows(merged) :
         r.start_date # NaN =>
           /\ r.in_campaign <=> (r.start_date <= r.date /\ r.date <= r.end_date)
           /\ (r.date = r.start_date \/ r.date = r.end_date) => r.in_campaign
           /\ (r.date = r.start_date - 1 \/ r.date = r.end_date + 1)
                => ~r.in_campaign
    /\ \A o \in Rows(orders) : \A c \in Rows(marketing) :
         c.product_id = o.product_id =>
           \E r \in Rows(merged) :
             /\ r.order_id = o.order_id
             /\ r.start_date = c.start_date
             /\ r.end_date = c.end_date
             /\ r.in_campaign = InWindow(o, c)

C2_Witness ==
  /\ pc = "orders_marketing"
  /\ \E r \in Rows(merged) : r.in_campaign /\ r.date = r.start_date
  /\ \E r \in Rows(merged) :
       /\ ~r.in_campaign
       /\ r.start_date # NaN
       /\ (r.date = r.end_date + 1 \/ r.date = r.start_date - 1)

\* C3: a row that is not in_campaign is named "No Campaign", a row that is
\* in_campaign carries the name of the paired campaign of its product, and
\* an order whose product has no campaign yields a row that is not
\* in_campaign and is named "No Campaign".
C3_CampaignNameSentinel ==
  Joined =>
    /\ \A r \in Rows(merged) :
         /\ ~r.in_campaign => r.campaign_name = NoCampaign
         /\ r.in_campaign =>
              \E c \in Rows(marketing) :
                /\ c.product_id = r.product_id
                /\ c.start_date = r.start_date
                /\ c.end_date = r.end_date
                /\ c.campaign_name = r.campaign_name
    /\ \A o \in Rows(orders) : \A c \in Rows(marketing) :
         (c.product_id = o.product_id /\ InWindow(o, c)) =>
           \E r \in Rows(merged) :
             /\ r.order_id = o.order_id
             /\ r.in_campaign
             /\ r.campaign_name = c.campaign_name
    /\ \A o \in Rows(orders) :
         (\A c \in Rows(marketing) : c.product_id # o.product_id) =>
           \A r \in Rows(merged) :
             r.order_id = o.order_id =>
               ~r.in_campaign /\ r.campaign_name = NoCampaign

C3_Witness ==
  /\ pc = "orders_marketing"
  /\ \E r \in Rows(merged) : r.in_campaign /\ r.campaign_name = "Jan Sale"
  /\ \E r \in Rows(merged) :
       r.start_date = NaN /\ r.campaign_name = NoCampaign

TrafficOn(d) == SelectSeq(web_traffic, LAMBDA t : t.date = d)

\* C4: after merge_with_web_traffic a row whose date is absent from the
\* traffic table has pageviews = 0 and sessions = 0, and a row whose date
\* is present carries the sums over all traffic records of that date.
C4_TrafficSumOrZero ==
  WebJoined =>
    \A r \in Rows(merged) :
      IF TrafficOn(r.date) = <<>>
        THEN r.pageviews = 0 /\ r.sessions = 0
        ELSE /\ r.pageviews = SumSeq(Column(TrafficOn(r.date), "pageviews"))
             /\ r.sessions = SumSeq(Column(TrafficOn(r.date), "sessions"))

C4_Witness ==
  /\ pc = "web_traffic"
  /\ \E r \in Rows(merged) :
       /\ Len(TrafficOn(r.date)) = 2
       /\ r.pageviews = 600
       /\ r.sessions = 100

\* The mean, over the dates of the per-date IoT aggregate, of a column.
IotGlobalMean(col) == FracMean(Column(IotAgg(iot), col))

\* C5: after merge_with_iot a row whose date is absent from the IoT data
\* has footfall and temperature equal to the mean over all dates of the
\* per-date IoT aggregate, each date counted once.
C5_IotGlobalMeanFill ==
  IotJoined =>
    \A r \in Rows(merged) :
      (\A s \in Rows(iot) : s.date # r.date) =>
        /\ r.footfall = IotGlobalMean("footfall")
        /\ r.temperature = IotGlobalMean("temperature")

----------------------------------------------------------------------------
(* Claims C6 - C9: the aggregator. *)

Aggregated == pc = "done"

Total(t, col) == SumSeq(Column(t, col))

\* C6: the sum of total_amount over product_sales equals the sum over
\* country_sales equals the sum over all rows of the unified table.
C6_RollupTotalsConserved ==
  Aggregated =>
    /\ Total(aggregations.product_sales, "total_amount")
         = Total(merged, "total_amount")
    /\ Total(aggregations.country_sales, "total_amount")
         = Total(merged, "total_amount")

\* C7: campaign_sales is built only from the rows with in_campaign = true:
\* its order_count column sums to no more than the number of such rows, it
\* has no "No Campaign" group, and each of its rows totals the in_campaign
\* rows of its campaign.
C7_CampaignRollupExcludesNoCampaign ==
  Aggregated =>
    LET active == SelectSeq(merged, LAMBDA r : r.in_campaign)
    IN /\ Total(aggregations.campaign_sales, "order_count") <= Len(active)
       /\ \A g \in Rows(aggregations.campaign_sales) :
            /\ g.campaign_name # NoCampaign
            /\ g.total_amount =
                 Total(SelectSeq(active,
                                 LAMBDA r : r.campaign_name = g.campaign_name),
                       "total_amount")
            /\ g.order_count =
                 Len(SelectSeq(active,
                               LAMBDA r : r.campaign_name = g.campaign_name))

C7_Witness ==
  /\ Aggregated
  /\ aggregations.campaign_sales # <<>>
  /\ \E r \in Rows(merged) : ~r.in_campaign

Descending(t) ==
  \A i \in 1..(Len(t) - 1) : t[i].total_amount >= t[i + 1].total_amount

\* C8: campaign_sales, product_sales and country_sales are ordered by
\* total_amount descending.
C8_RollupsSortedDescending ==
  Aggregated =>
    /\ Descending(aggregations.campaign_sales)
    /\ Descending(aggregations.product_sales)
    /\ Descending(aggregations.country_sales)

StrictlyDescendingPair(t) ==
  Len(t) = 2 /\ t[1].total_amount > t[2].total_amount

C8_Witness ==
  /\ Aggregated
  /\ StrictlyDescendingPair(aggregations.campaign_sales)
  /\ StrictlyDescendingPair(aggregations.product_sales)
  /\ StrictlyDescendingPair(aggregations.country_sales)

OnDate(d) == SelectSeq(merged, LAMBDA r : r.date = d)

\* C9: daily_sales has exactly one row per distinct date of the unified
\* table; the row of date d carries the sums of total_amount and quantity
\* and the number of the unified rows of date d, and the pageviews and
\* sessions that every unified row of date d carries.
C9_DailySalesPerDate ==
  Aggregated =>
    LET daily == aggregations.daily_sales
    IN /\ {daily[i].date : i \in 1..Len(daily)} = {r.date : r \in Rows(merged)}
       /\ \A i, j \in 1..Len(daily) : daily[i].date = daily[j].date => i = j
       /\ \A g \in Rows(daily) :
            /\ g.total_amount = Total(OnDate(g.date), "total_amount")
            /\ g.quantity = Total(OnDate(g.date), "quantity")
            /\ g.order_count = Len(OnDate(g.date))
            /\ \A r \in Rows(OnDate(g.date)) :
                 r.pageviews = g.pageviews /\ r.sessions = g.sessions

C9_Witness ==
  /\ Aggregated
  /\ Len(orders) = 2
  /\ \E g \in Rows(aggregations.daily_sales) :
       g.order_count = 2 /\ g.quantity = 3 /\ g.pageviews = 600

----------------------------------------------------------------------------
(* Claim C10: handle_missing_values. *)

\* C10: with strategy 'zero' every cell that was missing equals 0, every
\* cell that was present is unchanged, and the number and order of the
\* rows is unchanged.
C10_ZeroFill ==
  (npc = "returned" /\ strategy = "zero") =>
    /\ Len(df_copy) = Len(df)
    /\ \A i \in 1..Len(df) : \A c \in DfCols :
         df_copy[i][c] = IF IsNull(df[i], c) THEN Zero(c) ELSE df[i][c]

C10_Witness ==
  /\ npc = "returned"
  /\ strategy = "zero"
  /\ Len(df) = 2
  /\ IsNull(df[1], "country") /\ df_copy[1].country = 0
  /\ IsNull(df[2], "quantity") /\ df_copy[2].quantity = Frac(0, 1)
  /\ ~IsNull(df[1], "total_amount") /\ df_copy[1].total_amount = df[1].total_amount

----------------------------------------------------------------------------
(* Claims C11 and C12: handle_missing_values, 'mean' and 'drop'. *)

Returned == npc = "returned"

HasPresent(t, c) == \E i \in 1..Len(t) : ~IsNull(t[i], c)

Complete(row) == \A c \in DfCols : ~IsNull(row, c)

\* C12: with strategy 'drop' the returned table has no missing cell, and
\* its rows are the rows of the argument that have no missing cell in any
\* column, unmodified and in their original order.
C12_DropKeepsCompleteRows ==
  (Returned /\ strategy = "drop") =>
    LET kept == {i \in 1..Len(df) : Complete(df[i])}
        rank(i) == Cardinality({j \in kept : j <= i})
    IN /\ \A i \in 1..Len(df_copy) : Complete(df_copy[i])
       /\ Len(df_copy) = Cardinality(kept)
       /\ \A i \in kept : df_copy[rank(i)] = df[i]

C12_Witness ==
  /\ Returned
  /\ strategy = "drop"
  /\ Len(df) = 2
  /\ IsNull(df[1], "country") /\ ~IsNull(df[1], "quantity")
  /\ ~IsNull(df[1], "total_amount")
  /\ Complete(df[2])
  /\ df_copy = <<df[2]>>

----------------------------------------------------------------------------
(* Claims C13 and C14: normalize_numeric and normalize_dates. *)

NumericReturned ==
  proc = "normalize_numeric" /\ spc = "returned" /\ "total_amount" \in columns

DatesReturned ==
  proc = "normalize_dates" /\ spc = "returned" /\ "order_date" \in columns

\* C13: normalize_numeric turns every string of the column that is a
\* numeral with a currency symbol or thousands separators into the number
\* it spells, wherever the string stands in the column and whichever
\* symbol it carries.
C13_CurrencyStrippedEverywhere ==
  NumericReturned =>
    \A i \in 1..Len(raw) :
      LET x == raw[i].total_amount
      IN (IsStr(x) /\ ~x.junk) => clean[i].total_amount = x.value

\* C14: one cell that cannot be parsed becomes the missing marker and the
\* cells of the same column that can be parsed are converted; the column
\* is never left unconverted.
C14_BadCellAloneBecomesMissing ==
  /\ DatesReturned =>
       \A i \in 1..Len(raw) :
         LET x == raw[i].order_date
         IN /\ x.k = "bad" => clean[i].order_date = NaT
            /\ x.k = "str" => clean[i].order_date = Timestamp(x.day, x.hour)
  /\ NumericReturned =>
       \A i \in 1..Len(raw) :
         LET x == raw[i].total_amount
         IN /\ ~IsStr(clean[i].total_amount)
            /\ (IsStr(x) /\ x.junk) => clean[i].total_amount = RNaN

----------------------------------------------------------------------------
(* Claims C15 - C17: the per-source procedures. *)

SourceProcs ==
  {"normalize_orders", "normalize_marketing", "normalize_web_traffic",
   "normalize_iot"}

Finished == proc \in SourceProcs /\ spc \in {"returned", "raised"}

\* C15: when a column of the schema is absent from the argument, the
\* per-source procedure (here with the default strategy 'mean') still
\* completes and returns a table.
C15_AbsentColumnSkipped ==
  (Finished /\ pass = 1 /\ fill = "mean" /\ ~(Schema(proc) \subseteq columns))
    => spc = "returned"

\* C16: every row of the table normalize_marketing returns satisfies
\* end_date >= start_date, whatever the argument and the fill strategy.
C16_ReturnedCampaignsOrdered ==
  (proc = "normalize_marketing" /\ spc = "returned" /\ pass = 1) =>
    \A r \in Range(clean) : NotBefore(r.end_date, r.start_date)

\* The table has the types of a normalised table and no missing cell.
IsNormalized(t) ==
  /\ MissingCount(t) = 0
  /\ \A r \in Range(t) : \A c \in Cols(t) :
       /\ c \in DatetimeCols => r[c].k \in {"ts", "date"}
       /\ c \in NumericCols => ~IsStr(r[c])

\* C17: a per-source procedure applied to the table it returned, when that
\* table has the normalised types and no missing cell, returns an equal
\* table.
C17_NormalizationIdempotent ==
  (Finished /\ pass = 2 /\ IsNormalized(raw)) =>
    spc = "returned" /\ clean = raw

C17_Witness ==
  /\ proc = "normalize_web_traffic"
  /\ spc = "returned"
  /\ pass = 2
  /\ columns = {"date", "pageviews"}
  /\ Len(raw) = 2
  /\ raw[1].date = DateObj(1) /\ raw[2].date = DateObj(2)
  /\ raw[1].pageviews = Frac(5, 1)
  /\ clean = raw

----------------------------------------------------------------------------
(* Claims C18 and C19: main and execute_pipeline. *)

\* load_all_sources raised in this invocation.
LoadFailed ==
  /\ "load_config" \in completed
  /\ mpc # "load_all_sources"
  /\ loaded # Range(Sources)

LaterStages ==
  {"normalize_all_sources", "federate_all", "create_all_visualizations",
   "save_processed_data", "generate_summary_report"}

\* C18: when the loading of one of the four sources fails, no later stage
\* of main runs in that invocation, no summary report is written by it and
\* main does not return 0 (it returns 1); main returns 0 only when every
\* stage up to generate_summary_report completed.
C18_LoadFailureIsFatal ==
  /\ LoadFailed =>
       /\ completed \cap LaterStages = {}
       /\ report_file # run
       /\ exit_code # 0
       /\ mpc = "returned" => exit_code = 1
  /\ exit_code = 0 => completed = Range(Stages)

C18_Witness ==
  /\ mpc = "returned"
  /\ exit_code = 1
  /\ loaded = {"orders", "marketing"}
  /\ completed = {"load_config"}

\* execute_pipeline returned with its outcome logged and an email handed
\* to send_email_with_report, whose status is "Success" exactly when main
\* returned 0.
Reported ==
  /\ logged # ""
  /\ email # NoEmail
  /\ email.status = "Success" <=> exit_code = 0

\* C19: every invocation of execute_pipeline, whether main returns 0,
\* returns another code or raises, ends with execute_pipeline returning
\* normally, the outcome logged and an email attempted whose status is
\* "Success" exactly when main returned 0; this also when the email could
\* not be sent.
C19_OutcomeReported ==
  /\ [](epc = "returned" => Reported)
  /\ (epc = "run_pipeline") ~> (epc = "returned")

C19_Witness ==
  /\ epc = "returned"
  /\ exit_code = 1
  /\ logged = "Failed"
  /\ email.status = "Failed"
  /\ ~email.delivered

----------------------------------------------------------------------------
(* Claim C20: rows without a grouping key. *)

\* C20: create_aggregations does not complete on a unified table that has
\* a row without its grouping key: whenever it has completed, every
\* unified row has its country and is counted in a group of the country
\* rollup.
C20_MissingKeyIsFatal ==
  Aggregated =>
    \A r \in Rows(merged) :
      /\ r.country # NaStr
      /\ \E g \in Rows(aggregations.country_sales) : g.country = r.country

----------------------------------------------------------------------------
(* Claim C21: the inputs of federate_all. *)

\* C21: no step of federate_all changes a table it was passed: the orders,
\* marketing, web traffic and IoT tables keep their columns and their
\* cells, also when the orders or the IoT table has no date column.
C21_InputsNotMutated ==
  [][/\ orders' = orders
     /\ marketing' = marketing
     /\ web_traffic' = web_traffic
     /\ iot' = iot]_vars

\* C22: within one invocation of main the configuration file is read at
\* most once (exactly once when main gets past its first stage), and the
\* configuration normalize_all_sources works with is the one main read.
C22_ConfigReadOnce ==
  /\ config_reads <= 1
  /\ "load_config" \in completed => config_reads = 1
  /\ "normalize_all_sources" \in completed => norm_config = config

\* The table `after` has the rows of `before`, as many and in the same
\* order, each with its cells unchanged (and possibly with more columns).
SameRowsInOrder(before, after) ==
  /\ Len(after) = Len(before)
  /\ \A i \in 1..Len(before) :
       \A c \in DOMAIN before[i] : after[i][c] = before[i][c]

\* C23: merge_with_web_traffic and merge_with_iot each return a table with
\* the rows of the table they receive, as many and in the same order,
\* whatever the traffic and IoT tables hold: no row is duplicated or lost.
C23_SideJoinsKeepRows ==
  [][(MergeWithWebTraffic \/ MergeWithIot)
       => SameRowsInOrder(merged, merged')]_vars

\* Both joins have run on a table with rows: one over two traffic records
\* of a date that a row has, the other over an IoT table that has two
\* records of one date or none at all.
C23_Witness ==
  /\ pc = "iot"
  /\ merged # <<>>
  /\ \/ /\ \E r \in Rows(merged) : Len(TrafficOn(r.date)) = 2
        /\ iot = <<>>
     \/ /\ web_traffic = <<>>
        /\ \E r \in Rows(merged) :
             Len(SelectSeq(iot, LAMBDA s : s.date = r.date)) = 2

\* C24: the report attached to the email of an invocation of
\* execute_pipeline was written by that invocation: an invocation whose
\* main stopped before generate_summary_report wrote the report does not
\* attach the report an earlier invocation left behind.
C24_AttachedReportIsOfThisRun ==
  (epc = "returned" /\ email.attachment # 0) => email.attachment = run

====
